---- MODULE Spec2Model ----
(***************************************************************************)
(* A model of subscription_optimizer.core:                                 *)
(*   SubscriptionDataCollector (subscription_data_collector.py) and        *)
(*   AIModelManager (ai_models.py).                                        *)
(* Spec      : sequences of collect_all_data calls on one collector, with  *)
(*             the wall clock advancing while a call is in flight.         *)
(* TrainSpec : sequences of train_churn_model calls on one manager.        *)
(***************************************************************************)
EXTENDS Integers, Sequences, FiniteSets, TLC

VARIABLES
    pc,               \* the statement collect_all_data is at ("idle": no call in flight)
    clock,            \* the wall clock read by datetime.today() / datetime.now()
    last_fetch_time,  \* self.last_fetch_time
    salesforce_data,  \* local of collect_all_data
    stripe_data,      \* local of collect_all_data
    ga_data,          \* local of collect_all_data
    start_date,       \* the argument evaluated at line 131
    params,           \* the query parameters built at lines 102-106
    contacted,        \* the requests.get calls of the current call, in order
    outcome,          \* how the last collect_all_data call ended
    scaler,           \* AIModelManager.scaler
    models,           \* AIModelManager.models (its keys)
    train_data,       \* the argument of the last train_churn_model call
    train_outcome,    \* how the last train_churn_model call ended
    next_object       \* identity given to the next object constructed

collector_vars == <<pc, clock, last_fetch_time, salesforce_data, stripe_data, ga_data,
                    start_date, params, contacted, outcome>>
manager_vars == <<scaler, models, train_data, train_outcome, next_object>>
vars == <<pc, clock, last_fetch_time, salesforce_data, stripe_data, ga_data,
          start_date, params, contacted, outcome,
          scaler, models, train_data, train_outcome, next_object>>

---------------------------------------------------------------------------
(* Bounds of the model.                                                    *)
MaxPrimaryRows == 2
MaxSecondaryRows == 2
MaxTicks == 2
MaxTrainRows == 2

(* timedelta(days=30) *)
WindowDays == 30

---------------------------------------------------------------------------
(* Python's None and a set attribute/local: <<>> and <<v>>.                *)
None == <<>>
Some(v) == <<v>>
Get(o) == o[1]

(* pandas' missing marker. Every cell of a frame is a string.              *)
NaN == "NaN"

SeqsUpTo(S, n) == UNION {[1..k -> S] : k \in 0..n}

RECURSIVE Flatten(_)
Flatten(ss) == IF ss = <<>> THEN <<>> ELSE Head(ss) \o Flatten(Tail(ss))

---------------------------------------------------------------------------
(* Exceptions: the type, the request URL an HTTPError carries, the wrapped *)
(* cause (none: the code never chains one).                                *)
Url(source) ==
    CASE source = "salesforce" -> "https://api.salesforce.com/subscriptions"
      [] source = "stripe" -> "https://api.stripe.com/payments/subscriptions"
      [] source = "google_analytics" -> "https://api.google-analytics.com/data"

HTTPError(source) == [type |-> "HTTPError", url |-> Url(source), cause |-> "none"]
KeyError == [type |-> "KeyError", url |-> "none", cause |-> "none"]

(* response.raise_for_status(): raises for 4xx and 5xx.                    *)
StatusCodes == {200, 404, 500}
RaiseForStatus(code) == code >= 400

---------------------------------------------------------------------------
(* The JSON bodies the three services answer with: lists of flat objects.  *)
PrimaryIds == {"S1", "S2"}
(* The payments and the usage source each know one subscription of the     *)
(* primary and one ("S3") the primary does not.                            *)
PaymentIds == {"S2", "S3"}
UsageIds == {"S1", "S3"}
(* Fields the billing/CRM object may carry besides its own; "status" and   *)
(* "revenue" collide with the columns taken from the secondary sources.    *)
PrimaryExtras == {{}, {"status"}, {"revenue"}}

PrimaryRecord(id, extra) ==
    [c \in {"subscription_id", "plan"} \cup extra |->
        CASE c = "subscription_id" -> id
          [] c = "plan" -> "basic"
          [] c = "status" -> "trial"
          [] c = "revenue" -> "99"]

Odd(k) == k % 2 = 1

PaymentRecord(id, k) ==
    [subscription_id |-> id,
     status |-> IF Odd(k) THEN "active" ELSE "canceled",
     created_at |-> IF Odd(k) THEN "2024-01-01" ELSE "2024-02-01"]

UsageRecord(id, k) ==
    [subscription_id |-> id,
     session_count |-> IF Odd(k) THEN "2" ELSE "5",
     revenue |-> IF Odd(k) THEN "10" ELSE "20"]

SalesforceResponses ==
    {[k \in 1..Len(ids) |-> PrimaryRecord(ids[k], extra)] :
        ids \in SeqsUpTo(PrimaryIds, MaxPrimaryRows), extra \in PrimaryExtras}

StripeResponses ==
    {[k \in 1..Len(ids) |-> PaymentRecord(ids[k], k)] :
        ids \in SeqsUpTo(PaymentIds, MaxSecondaryRows)}

GoogleAnalyticsResponses ==
    {[k \in 1..Len(ids) |-> UsageRecord(ids[k], k)] :
        ids \in SeqsUpTo(UsageIds, MaxSecondaryRows)}

---------------------------------------------------------------------------
(* pandas. A DataFrame is its set of column labels and its rows in order;  *)
(* a row maps every column label to a cell.                                *)

(* pd.json_normalize(list of flat objects): the columns are the union of   *)
(* the objects' keys (none for an empty list), absent keys become NaN.     *)
JsonNormalize(body) ==
    LET cols == UNION {DOMAIN body[k] : k \in 1..Len(body)}
    IN [columns |-> cols,
        rows |-> [k \in 1..Len(body) |->
                    [c \in cols |-> IF c \in DOMAIN body[k] THEN body[k][c] ELSE NaN]]]

(* df[[c1, c2, ...]]: KeyError when a label is not a column.               *)
SelectColumns(df, cols) ==
    IF cols \subseteq df.columns
    THEN [ok |-> TRUE,
          df |-> [columns |-> cols,
                  rows |-> [k \in 1..Len(df.rows) |-> [c \in cols |-> df.rows[k][c]]]]]
    ELSE [ok |-> FALSE, exc |-> KeyError]

(* The label a column gets in a merge: overlapping non-key labels take     *)
(* the side's suffix ("_x" left, "_y" right), pandas' default.             *)
Suffixed(c, overlap, suffix) == IF c \in overlap THEN c \o suffix ELSE c

(* The rows a left row yields in a left join: one per matching right row,  *)
(* in the right frame's order, or one with NaN when none matches.          *)
JoinRows(lrow, right, on) ==
    LET matches == SelectSeq(right.rows, LAMBDA r : r[on] = lrow[on])
    IN IF matches = <<>>
       THEN <<[l |-> lrow, r |-> [c \in right.columns |-> NaN]]>>
       ELSE [m \in 1..Len(matches) |-> [l |-> lrow, r |-> matches[m]]]

(* A left join on one key column, as pandas computes it: the left rows in   *)
(* order, each with its matching right rows; all left columns, then the    *)
(* right's non-key columns.                                                *)
LeftJoin(left, right, on) ==
    IF on \notin left.columns \/ on \notin right.columns
    THEN [ok |-> FALSE, exc |-> KeyError]
    ELSE LET overlap == (left.columns \cap right.columns) \ {on}
             lcols == {Suffixed(c, overlap, "_x") : c \in left.columns}
             rcols == {Suffixed(c, overlap, "_y") : c \in right.columns \ {on}}
             LSrc(c) == CHOOSE lc \in left.columns : Suffixed(lc, overlap, "_x") = c
             RSrc(c) == CHOOSE rc \in right.columns \ {on} : Suffixed(rc, overlap, "_y") = c
             pairs == Flatten([k \in 1..Len(left.rows) |-> JoinRows(left.rows[k], right, on)])
         IN [ok |-> TRUE,
             df |-> [columns |-> lcols \cup rcols,
                     rows |-> [k \in 1..Len(pairs) |->
                                [c \in lcols \cup rcols |->
                                    IF c \in lcols THEN pairs[k].l[LSrc(c)]
                                    ELSE pairs[k].r[RSrc(c)]]]]]

(* how='right' in place of how='left'. *)
MergeHowRight(left, right, on) == LeftJoin(right, left, on)

(* left.merge(right, on=on, how='left'), lines 136-144.                    *)
Merge(left, right, on) == LeftJoin(left, right, on)

---------------------------------------------------------------------------
(* datetime. A datetime is a day number and a time of day; strftime with   *)
(* '%Y-%m-%d' keeps the date and drops the time of day.                    *)
Strftime(dt) == dt.day
MinusDays(dt, n) == [day |-> dt.day - n, tod |-> dt.tod]

(* The half-days the clock has advanced since the collector was built.     *)
Elapsed(dt) == 2 * dt.day + (IF dt.tod = "pm" THEN 1 ELSE 0)
CanTick == Elapsed(clock) < MaxTicks
Later(dt) == IF dt.tod = "am" THEN [day |-> dt.day, tod |-> "pm"]
             ELSE [day |-> dt.day + 1, tod |-> "am"]

---------------------------------------------------------------------------
(* collect_all_data, lines 126-151.                                        *)

(* The payments fetch moved before the billing/CRM fetch. *)
FetchOrderSwapped == <<"stripe", "salesforce", "google_analytics">>

(* The order the sources are contacted in, lines 128-130.                  *)
FetchOrder == <<"salesforce", "stripe", "google_analytics">>

(* subscription_df, lines 135-145.                                         *)
SubscriptionDf(sf, st, ga) ==
    LET s1 == SelectColumns(st, {"subscription_id", "status", "created_at"})
    IN IF ~s1.ok THEN s1
       ELSE LET m1 == Merge(sf, s1.df, "subscription_id")
            IN IF ~m1.ok THEN m1
               ELSE LET s2 == SelectColumns(ga, {"subscription_id", "session_count", "revenue"})
                    IN IF ~s2.ok THEN s2
                       ELSE Merge(m1.df, s2.df, "subscription_id")

(* A handler that wraps what it caught in a new error. *)
ReraiseWrapped(e) == [type |-> "CollectionError", url |-> e.url, cause |-> e.type]

(* except Exception as e: log; raise -- lines 149-151, and the same        *)
(* handler in each fetch method: the caught exception propagates.          *)
Reraise(e) == e

(* The assignment of line 147 moved to a finally block. *)
LastFetchAlways(old, returned, now) == Some(now)

(* self.last_fetch_time after the try block of one call: line 147 runs     *)
(* only when nothing above it raised.                                      *)
LastFetchAfter(old, returned, now) == IF returned THEN Some(now) ELSE old

Init ==
    /\ pc = "idle"
    /\ clock = [day |-> 0, tod |-> "am"]
    /\ last_fetch_time = None
    /\ salesforce_data = None
    /\ stripe_data = None
    /\ ga_data = None
    /\ start_date = None
    /\ params = None
    /\ contacted = <<>>
    /\ outcome = [kind |-> "none"]
    /\ scaler = None
    /\ models = {}
    /\ train_data = None
    /\ train_outcome = [kind |-> "none"]
    /\ next_object = 1

(* A caller invokes collect_all_data.                                      *)
Call ==
    /\ pc = "idle"
    /\ pc' = "fetch_salesforce"
    /\ salesforce_data' = None
    /\ stripe_data' = None
    /\ ga_data' = None
    /\ start_date' = None
    /\ params' = None
    /\ contacted' = <<>>
    /\ outcome' = [kind |-> "pending"]
    /\ UNCHANGED <<clock, last_fetch_time>>
    /\ UNCHANGED manager_vars

(* A failed fetch: raise_for_status raises, the fetch's handler and then   *)
(* collect_all_data's handler log and re-raise; the call is over.          *)
FetchFails(source, code) ==
    /\ RaiseForStatus(code)
    /\ contacted' = Append(contacted, [source |-> source, status |-> code])
    /\ outcome' = [kind |-> "raise", exc |-> Reraise(Reraise(HTTPError(source)))]
    /\ last_fetch_time' = LastFetchAfter(last_fetch_time, FALSE, clock)
    /\ pc' = "idle"

(* fetch_salesforce_data, lines 59-68, called at line 128.                 *)
FetchSalesforce ==
    /\ pc = "fetch_salesforce"
    /\ \E code \in StatusCodes :
        IF RaiseForStatus(code)
        THEN /\ FetchFails(FetchOrder[1], code)
             /\ UNCHANGED salesforce_data
        ELSE \E body \in SalesforceResponses :
             /\ contacted' = Append(contacted, [source |-> FetchOrder[1], status |-> code])
             /\ salesforce_data' = Some(JsonNormalize(body))
             /\ pc' = "fetch_stripe"
             /\ UNCHANGED <<outcome, last_fetch_time>>
    /\ UNCHANGED <<clock, stripe_data, ga_data, start_date, params>>
    /\ UNCHANGED manager_vars

(* fetch_stripe_data, lines 79-88, called at line 129.                     *)
FetchStripe ==
    /\ pc = "fetch_stripe"
    /\ \E code \in StatusCodes :
        IF RaiseForStatus(code)
        THEN /\ FetchFails(FetchOrder[2], code)
             /\ UNCHANGED stripe_data
        ELSE \E body \in StripeResponses :
             /\ contacted' = Append(contacted, [source |-> FetchOrder[2], status |-> code])
             /\ stripe_data' = Some(JsonNormalize(body))
             /\ pc' = "start_date"
             /\ UNCHANGED <<outcome, last_fetch_time>>
    /\ UNCHANGED <<clock, salesforce_data, ga_data, start_date, params>>
    /\ UNCHANGED manager_vars

(* The argument of fetch_google_analytics_data, line 131.                  *)
EvalStartDate ==
    /\ pc = "start_date"
    /\ start_date' = Some(Strftime(MinusDays(clock, WindowDays)))
    /\ pc' = "build_params"
    /\ UNCHANGED <<clock, last_fetch_time, salesforce_data, stripe_data, ga_data,
                   params, contacted, outcome>>
    /\ UNCHANGED manager_vars

(* fetch_google_analytics_data, lines 102-106.                             *)
BuildParams ==
    /\ pc = "build_params"
    /\ params' = Some([k \in {"start-date", "end-date"} |->
                        IF k = "start-date" THEN Get(start_date) ELSE Strftime(clock)])
    /\ pc' = "fetch_google_analytics"
    /\ UNCHANGED <<clock, last_fetch_time, salesforce_data, stripe_data, ga_data,
                   start_date, contacted, outcome>>
    /\ UNCHANGED manager_vars

(* fetch_google_analytics_data, lines 108-118.                             *)
FetchGoogleAnalytics ==
    /\ pc = "fetch_google_analytics"
    /\ \E code \in StatusCodes :
        IF RaiseForStatus(code)
        THEN /\ FetchFails(FetchOrder[3], code)
             /\ UNCHANGED ga_data
        ELSE \E body \in GoogleAnalyticsResponses :
             /\ contacted' = Append(contacted, [source |-> FetchOrder[3], status |-> code])
             /\ ga_data' = Some(JsonNormalize(body))
             /\ pc' = "merge"
             /\ UNCHANGED <<outcome, last_fetch_time>>
    /\ UNCHANGED <<clock, salesforce_data, stripe_data, start_date, params>>
    /\ UNCHANGED manager_vars

(* Lines 135-151: merge, record the time, return; or log and re-raise.     *)
MergeAndReturn ==
    /\ pc = "merge"
    /\ LET m == SubscriptionDf(Get(salesforce_data), Get(stripe_data), Get(ga_data))
       IN /\ outcome' = IF m.ok THEN [kind |-> "return", table |-> m.df]
                        ELSE [kind |-> "raise", exc |-> Reraise(m.exc)]
          /\ last_fetch_time' = LastFetchAfter(last_fetch_time, m.ok, clock)
    /\ pc' = "idle"
    /\ UNCHANGED <<clock, salesforce_data, stripe_data, ga_data, start_date, params, contacted>>
    /\ UNCHANGED manager_vars

(* Time passes while a call is in flight.                                  *)
Tick ==
    /\ pc # "idle"
    /\ CanTick
    /\ clock' = Later(clock)
    /\ UNCHANGED <<pc, last_fetch_time, salesforce_data, stripe_data, ga_data,
                   start_date, params, contacted, outcome>>
    /\ UNCHANGED manager_vars

Next ==
    \/ Call
    \/ FetchSalesforce
    \/ FetchStripe
    \/ EvalStartDate
    \/ BuildParams
    \/ FetchGoogleAnalytics
    \/ MergeAndReturn
    \/ Tick

Spec == Init /\ [][Next]_vars

---------------------------------------------------------------------------
(* AIModelManager.train_churn_model, ai_models.py lines 43-59.             *)

(* Lines 51-52. *)
Features == {"revenue", "session_count", "status"}
Target == "churn"

(* The frames train_churn_model is called with: every cell a string, as    *)
(* read from the sources; the frame may lack a column.                     *)
TrainRecord(revenue, status) ==
    [revenue |-> revenue, session_count |-> "2", status |-> status,
     churn |-> IF status = "1" THEN "0" ELSE "1"]

TrainRows ==
    SeqsUpTo({TrainRecord(r, s) : r \in {"10", "20"}, s \in {"1", "active"}}, MaxTrainRows)

TrainFrames ==
    {[columns |-> Features \cup {Target}, rows |-> rows] : rows \in TrainRows}
    \cup {SelectColumns([columns |-> Features \cup {Target}, rows |-> rows], cols).df :
            rows \in TrainRows \ {<<>>},
            cols \in {Features, {"revenue", "session_count", Target}}}

(* The cells numpy converts to float, and their values.                    *)
IsNumeric(cell) == cell \in {"0", "1", "2", "5", "10", "20", "99"}
ToNumber(cell) ==
    CASE cell = "0" -> 0 [] cell = "1" -> 1 [] cell = "2" -> 2 [] cell = "5" -> 5
      [] cell = "10" -> 10 [] cell = "20" -> 20 [] cell = "99" -> 99

ValueError == [type |-> "ValueError", url |-> "none", cause |-> "none"]
NotFittedError == [type |-> "NotFittedError", url |-> "none", cause |-> "none"]

RECURSIVE ColumnSum(_, _)
ColumnSum(rows, f) ==
    IF rows = <<>> THEN 0 ELSE ToNumber(Head(rows)[f]) + ColumnSum(Tail(rows), f)

(* A matrix a StandardScaler accepts: at least one sample, every cell      *)
(* convertible to float.                                                   *)
Scalable(X) ==
    /\ Len(X.rows) > 0
    /\ \A k \in 1..Len(X.rows) : \A f \in X.columns : IsNumeric(X.rows[k][f])

(* StandardScaler.fit: the fitted parameters, the per-column mean kept as  *)
(* the sample count and the column sums.                                   *)
FitParams(X) ==
    [n_samples |-> Len(X.rows), sums |-> [f \in X.columns |-> ColumnSum(X.rows, f)]]

(* The guard dropped: the scaler is taken as absent on every call. *)
ScalerAlwaysAbsent(s) == TRUE

(* `not self.scaler`, line 57: a StandardScaler object is truthy.          *)
ScalerAbsent(s) == s = None

(* Lines 58-59: a new StandardScaler is assigned to self.scaler, then      *)
(* fitted on X; when the fit raises, the unfitted object stays assigned.   *)
CreateAndFit(id, X) ==
    IF Scalable(X)
    THEN [ok |-> TRUE, scaler |-> Some([id |-> id, params |-> Some(FitParams(X))])]
    ELSE [ok |-> FALSE, scaler |-> Some([id |-> id, params |-> None]), exc |-> ValueError]

(* The branch taken when self.scaler is set: the scaler is reused to       *)
(* transform X and is neither replaced nor refitted.                       *)
Reuse(s, X) ==
    IF Get(s).params = None THEN [ok |-> FALSE, scaler |-> s, exc |-> NotFittedError]
    ELSE IF ~Scalable(X) THEN [ok |-> FALSE, scaler |-> s, exc |-> ValueError]
    ELSE [ok |-> TRUE, scaler |-> s]

(* The keys of self.models after a training that succeeded.                *)
ModelsAfterTraining(ms) == ms \cup {"churn"}

(* One call of train_churn_model(data).                                    *)
Train ==
    /\ \E data \in TrainFrames :
        /\ train_data' = Some(data)
        /\ LET X == SelectColumns(data, Features)
               y == SelectColumns(data, {Target})
           IN IF ~X.ok \/ ~y.ok
              THEN /\ train_outcome' = [kind |-> "raise", exc |-> KeyError]
                   /\ UNCHANGED <<scaler, models, next_object>>
              ELSE IF ScalerAbsent(scaler)
              THEN LET r == CreateAndFit(next_object, X.df)
                   IN /\ scaler' = r.scaler
                      /\ next_object' = next_object + 1
                      /\ train_outcome' = IF r.ok THEN [kind |-> "return"]
                                          ELSE [kind |-> "raise", exc |-> r.exc]
                      /\ models' = IF r.ok THEN ModelsAfterTraining(models) ELSE models
              ELSE LET r == Reuse(scaler, X.df)
                   IN /\ scaler' = r.scaler
                      /\ train_outcome' = IF r.ok THEN [kind |-> "return"]
                                          ELSE [kind |-> "raise", exc |-> r.exc]
                      /\ models' = IF r.ok THEN ModelsAfterTraining(models) ELSE models
                      /\ UNCHANGED next_object
    /\ UNCHANGED collector_vars

TrainNext == Train

TrainSpec == Init /\ [][TrainNext]_vars

---------------------------------------------------------------------------
(* Properties of collect_all_data.                                         *)

Returned == pc = "idle" /\ outcome.kind = "return"
Raised == pc = "idle" /\ outcome.kind = "raise"
AllFetched == salesforce_data # None /\ stripe_data # None /\ ga_data # None
FetchFailed == contacted # <<>> /\ RaiseForStatus(contacted[Len(contacted)].status)
FailedSource == contacted[Len(contacted)].source

Ids(df) == {df.rows[k]["subscription_id"] : k \in 1..Len(df.rows)}
PaymentFields == {"status", "created_at"}
UsageFields == {"session_count", "revenue"}

(* C1: when all three fetches succeed, the returned table has exactly as   *)
(* many rows as the primary (billing/CRM) fetch returned.                  *)
C1_RowCountEqualsPrimary ==
    Returned => Len(outcome.table.rows) = Len(Get(salesforce_data).rows)

(* C2: every row of a returned table carries a subscription_id that the    *)
(* primary fetch returned; an identifier only the payments or the usage    *)
(* source knows never appears as a row.                                    *)
C2_RowsComeFromPrimary ==
    Returned =>
        /\ "subscription_id" \in outcome.table.columns
        /\ \A k \in 1..Len(outcome.table.rows) :
              outcome.table.rows[k]["subscription_id"] \in Ids(Get(salesforce_data))

C2_Witness ==
    /\ Returned
    /\ Len(outcome.table.rows) > 0
    /\ Ids(Get(stripe_data)) \ Ids(Get(salesforce_data)) # {}
    /\ Ids(Get(ga_data)) \ Ids(Get(salesforce_data)) # {}

HoldsFieldsOf(table, row, src, fields) ==
    /\ fields \subseteq table.columns
    /\ IF row["subscription_id"] \in Ids(src)
       THEN \E j \in 1..Len(src.rows) :
              /\ src.rows[j]["subscription_id"] = row["subscription_id"]
              /\ \A f \in fields : row[f] = src.rows[j][f]
       ELSE \A f \in fields : row[f] = NaN

(* C4: in a returned table every row holds, for each enrichment field,     *)
(* the value of the matching row of the field's own source or the missing  *)
(* marker, and keeps the primary's fields and the other source's fields    *)
(* whatever the matches.                                                   *)
C4_EnrichmentFromOwnSource ==
    Returned =>
        \A k \in 1..Len(outcome.table.rows) :
            LET row == outcome.table.rows[k]
                sf == Get(salesforce_data)
            IN /\ HoldsFieldsOf(outcome.table, row, Get(stripe_data), PaymentFields)
               /\ HoldsFieldsOf(outcome.table, row, Get(ga_data), UsageFields)
               /\ sf.columns \subseteq outcome.table.columns
               /\ \E j \in 1..Len(sf.rows) : \A c \in sf.columns : row[c] = sf.rows[j][c]

(* C5: when the primary fetch returns no records and the secondary         *)
(* fetches succeed, the call returns an empty table.                       *)
C5_EmptyPrimaryReturnsEmpty ==
    (pc = "idle" /\ AllFetched /\ Len(Get(salesforce_data).rows) = 0) =>
        /\ outcome.kind = "return"
        /\ Len(outcome.table.rows) = 0

(* C6: a field name supplied by the primary and by a secondary source is   *)
(* carried once, under its own name, with the primary's value.             *)
C6_CollisionKeepsPrimaryField ==
    Returned =>
        \A c \in Get(salesforce_data).columns \cap (PaymentFields \cup UsageFields) :
            /\ c \in outcome.table.columns
            /\ outcome.table.columns \cap {c \o "_x", c \o "_y"} = {}
            /\ \A k \in 1..Len(outcome.table.rows) :
                  \E j \in 1..Len(Get(salesforce_data).rows) :
                      /\ Get(salesforce_data).rows[j]["subscription_id"]
                            = outcome.table.rows[k]["subscription_id"]
                      /\ Get(salesforce_data).rows[j][c] = outcome.table.rows[k][c]

(* C7: last_fetch_time is None at first; a call that returns a table sets  *)
(* it to the time of that call, every other step leaves it as it was, and  *)
(* it never goes back to None.                                             *)
ReturnsTable == pc # "idle" /\ pc' = "idle" /\ outcome'.kind = "return"

C7_LastFetchTimeTracksSuccess ==
    /\ last_fetch_time = None
    /\ [][/\ ReturnsTable => last_fetch_time' = Some(clock)
          /\ ~ReturnsTable => last_fetch_time' = last_fetch_time
          /\ last_fetch_time # None => last_fetch_time' # None]_vars

C7_Witness ==
    /\ Raised
    /\ last_fetch_time # None
    /\ Get(last_fetch_time) # clock

(* C9: the usage-analytics request's start-date is exactly 30 days before  *)
(* its end-date.                                                           *)
C9_WindowIsTrailing30Days ==
    params # None =>
        Get(params)["end-date"] - Get(params)["start-date"] = WindowDays

(* C10: the sources are contacted in the order billing/CRM, payments,      *)
(* usage-analytics, each at most once; a failed fetch ends the call with   *)
(* no later source contacted; the merge runs and a table is returned only  *)
(* after all three fetches succeeded.                                      *)
C10_SequentialFetches ==
    /\ Len(contacted) <= 3
    /\ \A i \in 1..Len(contacted) :
          /\ contacted[i].source = <<"salesforce", "stripe", "google_analytics">>[i]
          /\ i < Len(contacted) => ~RaiseForStatus(contacted[i].status)
    /\ FetchFailed => Raised
    /\ (pc = "merge" \/ outcome.kind = "return") =>
          /\ Len(contacted) = 3
          /\ ~FetchFailed
          /\ AllFetched

C10_Witness ==
    /\ Raised
    /\ FetchFailed
    /\ Len(contacted) = 2
    /\ salesforce_data # None
    /\ ga_data = None

---------------------------------------------------------------------------
(* Properties of train_churn_model.                                        *)

====
